---- MODULE Spec2Model ----
(***************************************************************************)
(* State-machine model of the Upsilon Workshop REST API                    *)
(* (workshop/api/models.py, serializers.py, views.py).                     *)
(*                                                                         *)
(* The store holds Users, Groups, OS entries, Scripts and Ratings.  Every  *)
(* HTTP handler is one action, except ScriptViewSet.retrieve, whose read   *)
(* of the Script (get_object) and whose write of the views counter         *)
(* (QuerySet.update) are two steps of a request worker, so that requests   *)
(* served by different inflight interleave between them.                    *)
(***************************************************************************)
EXTENDS Integers, Sequences, FiniteSets, Bags, TLC

\* ------------------------------------------------------------------ bounds
\* Primary keys handed out by each table over a whole run.
MaxUsers == 3
MaxScripts == 2
MaxRatings == 1
MaxGroups == 2
MaxOS == 1
\* Longest 'groups' list a request body carries.
MaxGroupList == 2
\* Requests that can be inside ScriptViewSet.retrieve at once.
MaxWorkers == 3
\* Retrieve requests served per Script over a whole run.
MaxRetrieves == 3
\* Last tick of the wall clock.
MaxTime == 1

\* request.user of an unauthenticated request (AnonymousUser: no pk,
\* is_staff False, equal to no stored User).
Anonymous == 0

\* The superuser made at deployment (manage.py createsuperuser).
Admin == 1

UserIds == 1..MaxUsers
ScriptIds == 1..MaxScripts
RatingIds == 1..MaxRatings
GroupIds == 1..MaxGroups
OSIds == 1..MaxOS
Times == 0..MaxTime

VARIABLES
    users,      \* pk -> [username, email, is_staff, groups]   (auth_user)
    groups,     \* set of pks of stored Groups                  (auth_group)
    oses,       \* set of pks of stored OS entries              (api_os)
    scripts,    \* pk -> [name, author, views, modified]        (api_script)
    ratings,    \* pk -> [rating, user, script]                 (api_rating)
    nextId,     \* the next AutoField value of each table
    now,        \* the wall clock read by auto_now
    inflight,   \* bag of [pk, views]: the Script instances held by the
                \* requests that are inside ScriptViewSet.retrieve
    resp,       \* the last request served: [op, role, status, sent, shown]
    scriptCreator,  \* history: Script pk -> identity that issued its create request
    ratingCreator,  \* history: Rating pk -> identity that issued its create request
    retrieved   \* history: Script pk -> retrieve requests completed on it

store == <<users, groups, oses, scripts, ratings, nextId>>
history == <<scriptCreator, ratingCreator, retrieved>>
vars == <<users, groups, oses, scripts, ratings, nextId, now, inflight, resp,
          scriptCreator, ratingCreator, retrieved>>

\* ------------------------------------------------------------ small helpers
NoBody == <<>>

\* The restriction of function f to the set S.
Restrict(f, S) == [x \in S |-> f[x]]

\* f without the keys in S.
Without(f, S) == [x \in DOMAIN f \ S |-> f[x]]

\* One field of a request body, or nothing when the field is not sent.
Sent(field, value) == field :> value

\* All sequences over S of length at most n.
SeqsUpTo(S, n) == UNION {[1..k -> S] : k \in 0..n}

\* The elements of a sequence.
Range(s) == {s[i] : i \in DOMAIN s}

\* All orders in which the rows of the set S can come back from an unordered query.
Orders(S) == {s \in [1..Cardinality(S) -> S] : Range(s) = S}

\* The last request served: the operation, the requester's standing towards
\* the object named in the URL, the outcome and, for the User view set, the
\* fields the request body carried and the fields of the User the response
\* shows.
ReplyUser(op, role, status, sent, shown) ==
    [op |-> op, role |-> role, status |-> status, sent |-> sent, shown |-> shown]

Reply(op, role, status) == ReplyUser(op, role, status, {}, {})

\* ------------------------------------------------------------------ inputs
\* E-mail addresses a client can send: a local part and a domain written in
\* lower or in upper case.
Emails ==
    {[name |-> "a", domain |-> "x.org"], [name |-> "a", domain |-> "X.ORG"],
     [name |-> "b", domain |-> "x.org"]}
AdminEmail == [name |-> "root", domain |-> "x.org"]
Usernames == {"alice", "bob"}

\* str.lower() on a domain.
Lower(d) == IF d = "X.ORG" THEN "x.org" ELSE d

\* Script.name values a client can send (they stand for the writable metadata
\* of a Script: name, version, description, licence, language, files).
ScriptNames == {"v1", "v2"}

\* Rating.rating values a client can send.
RatingValues == {5, 6}

Methods == {"GET", "POST", "PUT", "PATCH", "DELETE"}
SAFE_METHODS == {"GET", "HEAD", "OPTIONS"}

\* Who can issue a request: a stored User, or nobody in particular.
Identities == DOMAIN users \cup {Anonymous}

IsStaff(who) == who \in DOMAIN users /\ users[who].is_staff

\* The requester's standing towards an object owned by owner (0: no owner).
Role(who, owner) ==
    IF who = Anonymous THEN "anonymous"
    ELSE IF IsStaff(who) THEN "staff"
    ELSE IF who = owner THEN "owner"
    ELSE "other"

\* ------------------------------------------------------------- permissions
\* rest_framework.permissions.IsAuthenticatedOrReadOnly
IsAuthenticatedOrReadOnly(method, who) ==
    method \in SAFE_METHODS \/ who # Anonymous

\* rest_framework.permissions.AllowAny
AllowAny(method, who) == TRUE

\* workshop.api.permissions, as the specification states each class.
IsAdminOrReadOnly(method, who) ==
    method \in SAFE_METHODS \/ IsStaff(who)

ReadWriteWithoutPost(method, who) == method # "POST"

IsOwnerOrReadOnly(method, who, pk) ==
    method \in SAFE_METHODS \/ who = pk \/ IsStaff(who)

IsScriptOwnerOrReadOnly(method, who, script) ==
    method \in SAFE_METHODS \/ script.author = who \/ IsStaff(who)

IsRatingOwnerOrReadOnly(method, who, rating) ==
    method \in SAFE_METHODS \/ rating.user = who \/ IsStaff(who)

\* permission_classes of each view set: every class must grant the request
\* (has_permission), and every class must grant the object
\* (has_object_permission; the classes that decide on the object alone grant
\* every request, and the request-level classes grant every object).
UserViewSetPermission(method, who) == ReadWriteWithoutPost(method, who)
UserViewSetObjectPermission(method, who, pk) == IsOwnerOrReadOnly(method, who, pk)

GroupViewSetPermission(method, who) == IsAdminOrReadOnly(method, who)

ScriptViewSetPermission(method, who) == IsAuthenticatedOrReadOnly(method, who)
\* permission_classes without IsScriptOwnerOrReadOnly.
ScriptViewSetObjectPermissionNoOwner(method, who, script) == TRUE

ScriptViewSetObjectPermission(method, who, script) ==
    IsScriptOwnerOrReadOnly(method, who, script)

RatingViewSetPermission(method, who) == IsAuthenticatedOrReadOnly(method, who)
RatingViewSetObjectPermission(method, who, rating) ==
    IsRatingOwnerOrReadOnly(method, who, rating)

OSViewSetPermission(method, who) == IsAdminOrReadOnly(method, who)

RegisterViewSetPermission(method, who) == AllowAny(method, who)

\* The order of a detail request: the view's permissions (initial), then
\* get_object (404), then the object's permissions, then the handler.
Dispatch(viewPermission, exists, objectPermission) ==
    IF ~viewPermission THEN "denied"
    ELSE IF ~exists THEN "not_found"
    ELSE IF ~objectPermission THEN "denied"
    ELSE "pass"

\* ------------------------------------------------------------- serializers
\* Serializer.validated_data: the fields of the body the serializer declares,
\* without its read-only fields.
ValidatedData(body, fields, readOnly) ==
    Restrict(body, (DOMAIN body \cap fields) \ readOnly)

UserSerializerFields == {"url", "username", "email", "groups", "scripts", "ratings"}
UserSerializerReadOnlyFields == {"scripts", "ratings"}

ScriptSerializerFields ==
    {"url", "name", "created", "modified", "language", "version", "description",
     "ratings", "author", "files", "licence", "compatibility", "views"}
\* read_only_fields without 'author'.
ScriptSerializerReadOnlyFieldsNoAuthor ==
    {"created", "modified", "downloads", "views", "ratings"}

ScriptSerializerReadOnlyFields ==
    {"created", "modified", "downloads", "views", "author", "ratings"}

RatingSerializerFields ==
    {"url", "rating", "comment", "user", "script", "created", "modified"}
RatingSerializerReadOnlyFields == {"user"}

RegisterSerializerFields == {"username", "password", "email"}

\* ------------------------------------------------------------------- users
IsStaffIn(us, who) == who \in DOMAIN us /\ us[who].is_staff

\* ModelSerializer.to_representation of a User.
UserRepresentation(us, pk) ==
    [url |-> pk,
     username |-> us[pk].username,
     email |-> us[pk].email,
     groups |-> us[pk].groups,
     scripts |-> {s \in DOMAIN scripts : scripts[s].author = pk},
     ratings |-> {r \in DOMAIN ratings : ratings[r].user = pk}]

\* to_representation without the public-information branch.
UserSerializerToRepresentationFull(us, pk, who) == UserRepresentation(us, pk)

UserSerializerToRepresentation(us, pk, who) ==
    IF pk = who \/ IsStaffIn(us, who)
    THEN UserRepresentation(us, pk)
    ELSE LET representation == UserRepresentation(us, pk)
         IN  [url |-> representation.url,
              username |-> representation.username,
              groups |-> representation.groups,
              scripts |-> representation.scripts,
              ratings |-> representation.ratings]

\* validate_email (workshop.api.validators): the value is not used by another User.
validate_email(value, instance) ==
    \A u \in DOMAIN users \ {instance} : users[u].email # value

\* The UniqueValidator a ModelSerializer gives a field whose model field is
\* unique: no other row holds exactly this value.
UniqueEmail(value, instance) ==
    \A u \in DOMAIN users \ {instance} : users[u].email # value

UniqueUsername(value, instance) ==
    \A u \in DOMAIN users \ {instance} : users[u].username # value

\* UserManager.normalize_email, applied by create_user: the domain part in
\* lower case.
normalize_email(email) == [email EXCEPT !.domain = Lower(@)]

\* Request bodies of a User update: 'email' and 'groups', each sent or not.
\* A body carries the stored username (renaming is not modelled).
UserBodies ==
    {e @@ g : e \in {NoBody} \cup {Sent("email", x) : x \in Emails},
              g \in {NoBody} \cup
                    {Sent("groups", l) : l \in SeqsUpTo(GroupIds, MaxGroupList)}}

\* UserSerializer.is_valid for an update of the User pk.
UserSerializerIsValid(pk, partial, body) ==
    /\ partial \/ "email" \in DOMAIN body
    /\ "email" \in DOMAIN body =>
         validate_email(body.email, pk) /\ UniqueEmail(body.email, pk)
    /\ "groups" \in DOMAIN body => Range(body.groups) \subseteq groups

\* ModelSerializer.update: every validated field is set on the instance
\* (groups through instance.groups.set) and the instance is saved.
ModelSerializerUpdate(instance, validated_data) ==
    [instance EXCEPT
        !.email = IF "email" \in DOMAIN validated_data
                  THEN validated_data.email ELSE @,
        !.groups = IF "groups" \in DOMAIN validated_data
                   THEN Range(validated_data.groups) ELSE @]

\* update without the group check.
UserSerializerUpdateNoCheck(pk, validated_data, who, user_groups) ==
    [status |-> "ok",
     users |-> [users EXCEPT ![pk] = ModelSerializerUpdate(@, validated_data)]]

\* update in which omitted 'groups' stands for the current membership.
UserSerializerUpdateKeepOmitted(pk, validated_data, who, user_groups) ==
    LET new_groups == IF "groups" \in DOMAIN validated_data
                      THEN validated_data.groups ELSE user_groups
    IN  IF ~IsStaff(who) /\ user_groups # new_groups
        THEN [status |-> "denied", users |-> users]
        ELSE [status |-> "ok",
              users |-> [users EXCEPT
                            ![pk] = ModelSerializerUpdate(@, validated_data)]]

\* UserSerializer.update.  user_groups is list(instance.groups.all()), the
\* rows in the order the store returns them.
UserSerializerUpdate(pk, validated_data, who, user_groups) ==
    LET new_groups == IF "groups" \in DOMAIN validated_data
                      THEN validated_data.groups ELSE <<>>
    IN  IF ~IsStaff(who) /\ user_groups # new_groups
        THEN [status |-> "denied", users |-> users]
        ELSE [status |-> "ok",
              users |-> [users EXCEPT
                            ![pk] = ModelSerializerUpdate(@, validated_data)]]

\* The lists list(instance.groups.all()) can be: the query states no order.
GroupsAll(pk) ==
    IF pk \in DOMAIN users THEN Orders(users[pk].groups) ELSE {<<>>}

\* UserViewSet.update / partial_update, as a function of the request.
UserViewSetUpdate(who, pk, partial, body, user_groups) ==
    LET method == IF partial THEN "PATCH" ELSE "PUT"
        gate == Dispatch(UserViewSetPermission(method, who),
                         pk \in DOMAIN users,
                         UserViewSetObjectPermission(method, who, pk))
    IN  IF gate # "pass" THEN [status |-> gate, users |-> users]
        ELSE IF ~UserSerializerIsValid(pk, partial, body)
        THEN [status |-> "invalid", users |-> users]
        ELSE UserSerializerUpdate(
                 pk,
                 ValidatedData(body, UserSerializerFields,
                               UserSerializerReadOnlyFields),
                 who, user_groups)

UserUpdate(who, pk, partial, body, user_groups) ==
    LET result == UserViewSetUpdate(who, pk, partial, body, user_groups)
    IN  /\ users' = result.users
        /\ resp' = ReplyUser(
                       IF partial THEN "user_partial_update" ELSE "user_update",
                       Role(who, pk), result.status, DOMAIN body,
                       IF result.status = "ok"
                       THEN DOMAIN UserSerializerToRepresentation(result.users, pk, who)
                       ELSE {})
        /\ UNCHANGED <<groups, oses, scripts, ratings, nextId, now, inflight,
                       scriptCreator, ratingCreator, retrieved>>

\* UserViewSet.list
UserList(who) ==
    /\ resp' = Reply("user_list", Role(who, 0), "ok")
    /\ UNCHANGED <<store, now, inflight, history>>

\* UserViewSet.retrieve
UserRetrieve(who, pk) ==
    LET gate == Dispatch(UserViewSetPermission("GET", who), pk \in DOMAIN users,
                         UserViewSetObjectPermission("GET", who, pk))
    IN  /\ resp' = ReplyUser(
                       "user_retrieve", Role(who, pk),
                       IF gate = "pass" THEN "ok" ELSE gate, {},
                       IF gate = "pass"
                       THEN DOMAIN UserSerializerToRepresentation(users, pk, who)
                       ELSE {})
        /\ UNCHANGED <<store, now, inflight, history>>

\* UserViewSet.create: ReadWriteWithoutPost refuses every POST.
UserCreate(who) ==
    /\ resp' = Reply("user_create", Role(who, 0),
                     IF UserViewSetPermission("POST", who) THEN "ok" ELSE "denied")
    /\ UNCHANGED <<store, now, inflight, history>>

\* on_delete = CASCADE from Script.author, Rating.user and Rating.script.
ScriptsAfterUserDelete(pk) ==
    Restrict(scripts, {s \in DOMAIN scripts : scripts[s].author # pk})

RatingsAfterScriptDelete(gone) ==
    Restrict(ratings, {r \in DOMAIN ratings : ratings[r].script \notin gone})

\* A cascade that follows Rating.user alone.
RatingsAfterUserDeleteOwnOnly(pk) ==
    Restrict(ratings, {r \in DOMAIN ratings : ratings[r].user # pk})

RatingsAfterUserDelete(pk) ==
    LET gone == {s \in DOMAIN scripts : scripts[s].author = pk}
        left == RatingsAfterScriptDelete(gone)
    IN  Restrict(left, {r \in DOMAIN left : left[r].user # pk})

\* UserViewSet.destroy
UserDestroy(who, pk) ==
    LET gate == Dispatch(UserViewSetPermission("DELETE", who), pk \in DOMAIN users,
                         UserViewSetObjectPermission("DELETE", who, pk))
    IN  /\ resp' = Reply("user_destroy", Role(who, pk),
                         IF gate = "pass" THEN "ok" ELSE gate)
        /\ IF gate = "pass"
           THEN /\ users' = Without(users, {pk})
                /\ scripts' = ScriptsAfterUserDelete(pk)
                /\ ratings' = RatingsAfterUserDelete(pk)
                /\ scriptCreator' = Restrict(scriptCreator, DOMAIN scripts')
                /\ ratingCreator' = Restrict(ratingCreator, DOMAIN ratings')
                /\ retrieved' = Restrict(retrieved, DOMAIN scripts')
           ELSE UNCHANGED <<users, scripts, ratings, history>>
        /\ UNCHANGED <<groups, oses, nextId, now, inflight>>

\* RegisterSerializer.is_valid: username and email are required and unique.
RegisterSerializerIsValid(body) ==
    /\ {"username", "password", "email"} \subseteq DOMAIN body
    /\ UniqueUsername(body.username, 0)
    /\ validate_email(body.email, 0) /\ UniqueEmail(body.email, 0)

\* RegisterSerializer.create: User.objects.create_user(**validated_data)
RegisterSerializerCreate(validated_data) ==
    [username |-> validated_data.username,
     email |-> normalize_email(validated_data.email),
     is_staff |-> FALSE,
     groups |-> {}]

\* RegisterViewSet.create
Register(who, body) ==
    /\ nextId.user <= MaxUsers
    /\ IF RegisterSerializerIsValid(body)
       THEN /\ users' = (nextId.user :>
                           RegisterSerializerCreate(
                               ValidatedData(body, RegisterSerializerFields, {})))
                        @@ users
            /\ nextId' = [nextId EXCEPT !.user = @ + 1]
            /\ resp' = Reply("register", Role(who, 0), "ok")
       ELSE /\ resp' = Reply("register", Role(who, 0), "invalid")
            /\ UNCHANGED <<users, nextId>>
    /\ UNCHANGED <<groups, oses, scripts, ratings, now, inflight, history>>

RegisterBodies ==
    {[username |-> u, password |-> "secret", email |-> e] :
        u \in Usernames, e \in Emails}

\* RegisterViewSet.list / retrieve: the queryset is User.objects.none().
RegisterList(who) ==
    /\ resp' = Reply("register_list", Role(who, 0), "ok")
    /\ UNCHANGED <<store, now, inflight, history>>

\* ------------------------------------------------------------ groups and OS
GroupCreate(who) ==
    /\ nextId.group <= MaxGroups
    /\ IF GroupViewSetPermission("POST", who)
       THEN /\ groups' = groups \cup {nextId.group}
            /\ nextId' = [nextId EXCEPT !.group = @ + 1]
            /\ resp' = Reply("group_create", Role(who, 0), "ok")
       ELSE /\ resp' = Reply("group_create", Role(who, 0), "denied")
            /\ UNCHANGED <<groups, nextId>>
    /\ UNCHANGED <<users, oses, scripts, ratings, now, inflight, history>>

\* GroupViewSet.destroy: the rows of auth_user_groups go with the Group.
GroupDestroy(who, pk) ==
    LET gate == Dispatch(GroupViewSetPermission("DELETE", who), pk \in groups, TRUE)
    IN  /\ resp' = Reply("group_destroy", Role(who, 0),
                         IF gate = "pass" THEN "ok" ELSE gate)
        /\ IF gate = "pass"
           THEN /\ groups' = groups \ {pk}
                /\ users' = [u \in DOMAIN users |->
                                [users[u] EXCEPT !.groups = @ \ {pk}]]
           ELSE UNCHANGED <<groups, users>>
        /\ UNCHANGED <<oses, scripts, ratings, nextId, now, inflight, history>>

GroupRead(who, pk) ==
    /\ resp' = Reply("group_read", Role(who, 0),
                     IF pk = 0 \/ pk \in groups THEN "ok" ELSE "not_found")
    /\ UNCHANGED <<store, now, inflight, history>>

OSCreate(who) ==
    /\ nextId.os <= MaxOS
    /\ IF OSViewSetPermission("POST", who)
       THEN /\ oses' = oses \cup {nextId.os}
            /\ nextId' = [nextId EXCEPT !.os = @ + 1]
            /\ resp' = Reply("os_create", Role(who, 0), "ok")
       ELSE /\ resp' = Reply("os_create", Role(who, 0), "denied")
            /\ UNCHANGED <<oses, nextId>>
    /\ UNCHANGED <<users, groups, scripts, ratings, now, inflight, history>>

OSDestroy(who, pk) ==
    LET gate == Dispatch(OSViewSetPermission("DELETE", who), pk \in oses, TRUE)
    IN  /\ resp' = Reply("os_destroy", Role(who, 0),
                         IF gate = "pass" THEN "ok" ELSE gate)
        /\ oses' = IF gate = "pass" THEN oses \ {pk} ELSE oses
        /\ UNCHANGED <<users, groups, scripts, ratings, nextId, now, inflight,
                       history>>

OSRead(who, pk) ==
    /\ resp' = Reply("os_read", Role(who, 0),
                     IF pk = 0 \/ pk \in oses THEN "ok" ELSE "not_found")
    /\ UNCHANGED <<store, now, inflight, history>>

\* ----------------------------------------------------------------- scripts
\* The owners a client can name in the read-only 'author' / 'user' field of a
\* body, and the counter it can name in 'views'.
ClientOwners == {Admin}
ClientViews == {MaxRetrieves}

\* Request bodies of a Script: 'name', 'author' and 'views', each sent or not.
ScriptBodies ==
    {n @@ a @@ v :
        n \in {NoBody} \cup {Sent("name", x) : x \in ScriptNames},
        a \in {NoBody} \cup {Sent("author", x) : x \in ClientOwners},
        v \in {NoBody} \cup {Sent("views", x) : x \in ClientViews}}

\* ScriptSerializer.is_valid: 'name' (like 'files' and 'language') is required
\* unless the update is partial.
ScriptSerializerIsValid(partial, body) == partial \/ "name" \in DOMAIN body

\* Script(**validated_data).save(): views = IntegerField(default=0),
\* modified = DateTimeField(auto_now=True).
ScriptModelCreate(validated_data) ==
    [name |-> validated_data.name,
     author |-> validated_data.author,
     views |-> IF "views" \in DOMAIN validated_data THEN validated_data.views ELSE 0,
     modified |-> now]

\* ScriptSerializer.create
ScriptSerializerCreate(validated_data, who) ==
    ScriptModelCreate(("author" :> who) @@ validated_data)

\* ModelSerializer.update of a Script: setattr for every validated field, then
\* instance.save(), which sets modified (auto_now).
ScriptSerializerUpdate(instance, validated_data) ==
    [[f \in DOMAIN instance |->
        IF f \in DOMAIN validated_data THEN validated_data[f] ELSE instance[f]]
     EXCEPT !.modified = now]

\* ScriptViewSet.create
ScriptCreate(who, body) ==
    /\ nextId.script <= MaxScripts
    /\ IF ~ScriptViewSetPermission("POST", who)
       THEN /\ resp' = Reply("script_create", Role(who, 0), "denied")
            /\ UNCHANGED <<scripts, nextId, scriptCreator, retrieved>>
       ELSE IF ~ScriptSerializerIsValid(FALSE, body)
       THEN /\ resp' = Reply("script_create", Role(who, 0), "invalid")
            /\ UNCHANGED <<scripts, nextId, scriptCreator, retrieved>>
       ELSE /\ scripts' = (nextId.script :>
                              ScriptSerializerCreate(
                                  ValidatedData(body, ScriptSerializerFields,
                                                ScriptSerializerReadOnlyFields),
                                  who))
                          @@ scripts
            /\ nextId' = [nextId EXCEPT !.script = @ + 1]
            /\ scriptCreator' = (nextId.script :> who) @@ scriptCreator
            /\ retrieved' = (nextId.script :> 0) @@ retrieved
            /\ resp' = Reply("script_create", Role(who, who), "ok")
    /\ UNCHANGED <<users, groups, oses, ratings, now, inflight, ratingCreator>>

ScriptOwner(pk) == IF pk \in DOMAIN scripts THEN scripts[pk].author ELSE 0

\* The gate of a detail request on a Script.
ScriptGate(method, who, pk) ==
    Dispatch(ScriptViewSetPermission(method, who),
             pk \in DOMAIN scripts,
             pk \in DOMAIN scripts /\
                 ScriptViewSetObjectPermission(method, who, scripts[pk]))

\* ScriptViewSet.update / partial_update
ScriptUpdate(who, pk, partial, body) ==
    LET method == IF partial THEN "PATCH" ELSE "PUT"
        op == IF partial THEN "script_partial_update" ELSE "script_update"
        gate == ScriptGate(method, who, pk)
    IN  /\ IF gate # "pass"
           THEN /\ resp' = Reply(op, Role(who, ScriptOwner(pk)), gate)
                /\ UNCHANGED scripts
           ELSE IF ~ScriptSerializerIsValid(partial, body)
           THEN /\ resp' = Reply(op, Role(who, ScriptOwner(pk)), "invalid")
                /\ UNCHANGED scripts
           ELSE /\ scripts' =
                     [scripts EXCEPT
                         ![pk] = ScriptSerializerUpdate(
                                     @, ValidatedData(body, ScriptSerializerFields,
                                                      ScriptSerializerReadOnlyFields))]
                /\ resp' = Reply(op, Role(who, ScriptOwner(pk)), "ok")
        /\ UNCHANGED <<users, groups, oses, ratings, nextId, now, inflight, history>>

\* ScriptViewSet.destroy
ScriptDestroy(who, pk) ==
    LET gate == ScriptGate("DELETE", who, pk)
    IN  /\ resp' = Reply("script_destroy", Role(who, ScriptOwner(pk)),
                         IF gate = "pass" THEN "ok" ELSE gate)
        /\ IF gate = "pass"
           THEN /\ scripts' = Without(scripts, {pk})
                /\ ratings' = RatingsAfterScriptDelete({pk})
                /\ scriptCreator' = Restrict(scriptCreator, DOMAIN scripts')
                /\ ratingCreator' = Restrict(ratingCreator, DOMAIN ratings')
                /\ retrieved' = Restrict(retrieved, DOMAIN scripts')
           ELSE UNCHANGED <<scripts, ratings, history>>
        /\ UNCHANGED <<users, groups, oses, nextId, now, inflight>>

\* ScriptViewSet.list
ScriptList(who) ==
    /\ resp' = Reply("script_list", Role(who, 0),
                     IF ScriptViewSetPermission("GET", who) THEN "ok" ELSE "denied")
    /\ UNCHANGED <<store, now, inflight, history>>

\* How many requests hold the Script pk inside retrieve.
Retrieving(pk) ==
    LET held == {i \in BagToSet(inflight) : i.pk = pk}
        RECURSIVE Sum(_)
        Sum(S) == IF S = {} THEN 0
                  ELSE LET i == CHOOSE x \in S : TRUE
                       IN  CopiesIn(i, inflight) + Sum(S \ {i})
    IN  Sum(held)

\* ScriptViewSet.retrieve, first statement: instance = self.get_object().
\* The permissions are decided here; the requester plays no part afterwards.
ScriptRetrieveGetObject(who, pk) ==
    LET gate == ScriptGate("GET", who, pk)
    IN  /\ BagCardinality(inflight) < MaxWorkers
        /\ pk \in DOMAIN scripts => retrieved[pk] + Retrieving(pk) < MaxRetrieves
        /\ IF gate = "pass"
           THEN /\ inflight' = inflight (+)
                        SetToBag({[pk |-> pk, views |-> scripts[pk].views]})
                /\ resp' = Reply("script_get_object", Role(who, ScriptOwner(pk)), "pending")
           ELSE /\ resp' = Reply("script_retrieve", Role(who, ScriptOwner(pk)), gate)
                /\ UNCHANGED inflight
        /\ UNCHANGED <<store, now, history>>

\* A retrieve that bumped the counter through instance.save() would set
\* modified as well.
QuerySetUpdateViewsBySave(pk, value) ==
    IF pk \in DOMAIN scripts
    THEN [scripts EXCEPT ![pk].views = value, ![pk].modified = now]
    ELSE scripts

\* QuerySet.update(views=value) on the rows with this pk: one UPDATE statement,
\* which calls no save() and so leaves modified alone.
QuerySetUpdateViews(pk, value) ==
    IF pk \in DOMAIN scripts
    THEN [scripts EXCEPT ![pk].views = value]
    ELSE scripts

\* ScriptViewSet.retrieve, second and third statement:
\* Script.objects.filter(pk=instance.id).update(views=instance.views + 1), then
\* the stock retrieve, which fetches the object again and serializes it.
ScriptRetrieveUpdate(instance) ==
    /\ BagIn(instance, inflight)
    /\ scripts' = QuerySetUpdateViews(instance.pk, instance.views + 1)
    /\ inflight' = inflight (-) SetToBag({instance})
    /\ retrieved' = [pk \in DOMAIN retrieved |->
                        IF pk = instance.pk THEN retrieved[pk] + 1
                        ELSE retrieved[pk]]
    /\ resp' = Reply("script_retrieve", "any",
                     IF instance.pk \in DOMAIN scripts THEN "ok" ELSE "not_found")
    /\ UNCHANGED <<users, groups, oses, ratings, nextId, now,
                   scriptCreator, ratingCreator>>

\* ----------------------------------------------------------------- ratings
\* Request bodies of a Rating: 'rating', 'script' and 'user', each sent or not.
RatingBodies ==
    {r @@ s @@ u :
        r \in {NoBody} \cup {Sent("rating", x) : x \in RatingValues},
        s \in {NoBody} \cup {Sent("script", x) : x \in ScriptIds},
        u \in {NoBody} \cup {Sent("user", x) : x \in ClientOwners}}

\* RatingSerializer.is_valid: rating and script are required unless the update
\* is partial; MinValueValidator(0), MaxValueValidator(5); the Script exists.
RatingSerializerIsValid(partial, body) ==
    /\ partial \/ {"rating", "script"} \subseteq DOMAIN body
    /\ "rating" \in DOMAIN body => body.rating >= 0 /\ body.rating <= 5
    /\ "script" \in DOMAIN body => body.script \in DOMAIN scripts

RatingModelCreate(validated_data) ==
    [rating |-> validated_data.rating,
     script |-> validated_data.script,
     user |-> validated_data.user]

\* RatingSerializer.create
RatingSerializerCreate(validated_data, who) ==
    RatingModelCreate(("user" :> who) @@ validated_data)

\* ModelSerializer.update of a Rating.
RatingSerializerUpdate(instance, validated_data) ==
    [f \in DOMAIN instance |->
        IF f \in DOMAIN validated_data THEN validated_data[f] ELSE instance[f]]

\* RatingViewSet.create
RatingCreate(who, body) ==
    /\ nextId.rating <= MaxRatings
    /\ IF ~RatingViewSetPermission("POST", who)
       THEN /\ resp' = Reply("rating_create", Role(who, 0), "denied")
            /\ UNCHANGED <<ratings, nextId, ratingCreator>>
       ELSE IF ~RatingSerializerIsValid(FALSE, body)
       THEN /\ resp' = Reply("rating_create", Role(who, 0), "invalid")
            /\ UNCHANGED <<ratings, nextId, ratingCreator>>
       ELSE /\ ratings' = (nextId.rating :>
                              RatingSerializerCreate(
                                  ValidatedData(body, RatingSerializerFields,
                                                RatingSerializerReadOnlyFields),
                                  who))
                          @@ ratings
            /\ nextId' = [nextId EXCEPT !.rating = @ + 1]
            /\ ratingCreator' = (nextId.rating :> who) @@ ratingCreator
            /\ resp' = Reply("rating_create", Role(who, who), "ok")
    /\ UNCHANGED <<users, groups, oses, scripts, now, inflight, scriptCreator,
                   retrieved>>

RatingOwner(pk) == IF pk \in DOMAIN ratings THEN ratings[pk].user ELSE 0

RatingGate(method, who, pk) ==
    Dispatch(RatingViewSetPermission(method, who),
             pk \in DOMAIN ratings,
             pk \in DOMAIN ratings /\
                 RatingViewSetObjectPermission(method, who, ratings[pk]))

\* RatingViewSet.update / partial_update
RatingUpdate(who, pk, partial, body) ==
    LET method == IF partial THEN "PATCH" ELSE "PUT"
        op == IF partial THEN "rating_partial_update" ELSE "rating_update"
        gate == RatingGate(method, who, pk)
    IN  /\ IF gate # "pass"
           THEN /\ resp' = Reply(op, Role(who, RatingOwner(pk)), gate)
                /\ UNCHANGED ratings
           ELSE IF ~RatingSerializerIsValid(partial, body)
           THEN /\ resp' = Reply(op, Role(who, RatingOwner(pk)), "invalid")
                /\ UNCHANGED ratings
           ELSE /\ ratings' =
                     [ratings EXCEPT
                         ![pk] = RatingSerializerUpdate(
                                     @, ValidatedData(body, RatingSerializerFields,
                                                      RatingSerializerReadOnlyFields))]
                /\ resp' = Reply(op, Role(who, RatingOwner(pk)), "ok")
        /\ UNCHANGED <<users, groups, oses, scripts, nextId, now, inflight, history>>

\* RatingViewSet.destroy
RatingDestroy(who, pk) ==
    LET gate == RatingGate("DELETE", who, pk)
    IN  /\ resp' = Reply("rating_destroy", Role(who, RatingOwner(pk)),
                         IF gate = "pass" THEN "ok" ELSE gate)
        /\ IF gate = "pass"
           THEN /\ ratings' = Without(ratings, {pk})
                /\ ratingCreator' = Restrict(ratingCreator, DOMAIN ratings')
           ELSE UNCHANGED <<ratings, ratingCreator>>
        /\ UNCHANGED <<users, groups, oses, scripts, nextId, now, inflight,
                       scriptCreator, retrieved>>

\* RatingViewSet.list (pk = 0) / retrieve
RatingRead(who, pk) ==
    LET gate == IF pk = 0
                THEN IF RatingViewSetPermission("GET", who) THEN "pass" ELSE "denied"
                ELSE RatingGate("GET", who, pk)
    IN  /\ resp' = Reply("rating_read", Role(who, RatingOwner(pk)),
                         IF gate = "pass" THEN "ok" ELSE gate)
        /\ UNCHANGED <<store, now, inflight, history>>

\* The wall clock moves.
Tick ==
    /\ now < MaxTime
    /\ now' = now + 1
    /\ UNCHANGED <<store, inflight, resp, history>>

\* ---------------------------------------------------------- specifications
AdminUser ==
    [username |-> "admin", email |-> AdminEmail, is_staff |-> TRUE, groups |-> {}]

\* A fresh deployment: the migrated, empty tables and the superuser.
Init ==
    /\ users = Admin :> AdminUser
    /\ groups = {}
    /\ oses = {}
    /\ scripts = <<>>
    /\ ratings = <<>>
    /\ nextId = [user |-> 2, script |-> 1, rating |-> 1, group |-> 1, os |-> 1]
    /\ now = 0
    /\ inflight = EmptyBag
    /\ resp = Reply("none", "anonymous", "ok")
    /\ scriptCreator = <<>>
    /\ ratingCreator = <<>>
    /\ retrieved = <<>>

\* Bodies that carry no 'groups'.
UserEmailBodies == {body \in UserBodies : "groups" \notin DOMAIN body}

\* The account side of the API: registration and the User view set, with
\* every e-mail address a client can send, and the staff-managed OS catalogue.
NextAccounts ==
    \/ \E who \in Identities, body \in RegisterBodies : Register(who, body)
    \/ \E who \in Identities : RegisterList(who)
    \/ \E who \in Identities : UserCreate(who)
    \/ \E who \in Identities : OSCreate(who)
    \/ \E who \in Identities, pk \in OSIds : OSDestroy(who, pk)
    \/ \E who \in Identities : UserList(who)
    \/ \E who \in Identities, pk \in UserIds : UserRetrieve(who, pk)
    \/ \E who \in Identities, pk \in UserIds, partial \in BOOLEAN,
          body \in UserEmailBodies :
          \E user_groups \in GroupsAll(pk) :
              UserUpdate(who, pk, partial, body, user_groups)
    \/ \E who \in Identities, pk \in UserIds : UserDestroy(who, pk)

SpecAccounts == Init /\ [][NextAccounts]_vars

\* Registrations in which each username comes with its own address.
PlainRegisterBodies ==
    {[username |-> "alice", password |-> "secret",
      email |-> [name |-> "a", domain |-> "x.org"]],
     [username |-> "bob", password |-> "secret",
      email |-> [name |-> "b", domain |-> "x.org"]]}

\* Bodies whose 'email', when sent, is the stored one.
UserGroupBodies(pk) ==
    {body \in UserBodies :
        "email" \in DOMAIN body => pk \in DOMAIN users /\ body.email = users[pk].email}

\* Group membership: the Group view set and User updates with every 'groups'
\* list a client can send.
NextGroups ==
    \/ \E body \in PlainRegisterBodies :
          /\ (body.username = "alice") <=> (nextId.user = Admin + 1)
          /\ Register(Anonymous, body)
    \/ \E who \in Identities : GroupCreate(who)
    \/ \E who \in Identities, pk \in GroupIds : GroupDestroy(who, pk)
    \/ \E who \in Identities, pk \in groups \cup {0} : GroupRead(who, pk)
    \/ \E who \in Identities, pk \in UserIds, partial \in BOOLEAN :
          \E body \in UserGroupBodies(pk), user_groups \in GroupsAll(pk) :
              UserUpdate(who, pk, partial, body, user_groups)
    \/ \E who \in Identities, pk \in UserIds : UserDestroy(who, pk)

SpecGroups == Init /\ [][NextGroups]_vars

\* The content side of the API: Scripts and Ratings of registered users, one
\* retrieve at a time.
NextContent ==
    \/ \E body \in PlainRegisterBodies :
          /\ (body.username = "alice") <=> (nextId.user = Admin + 1)
          /\ Register(Anonymous, body)
    \/ \E who \in Identities, pk \in UserIds : UserDestroy(who, pk)
    \/ \E who \in Identities, body \in ScriptBodies : ScriptCreate(who, body)
    \/ \E who \in Identities, pk \in ScriptIds, partial \in BOOLEAN,
          body \in ScriptBodies : ScriptUpdate(who, pk, partial, body)
    \/ \E who \in Identities, pk \in ScriptIds : ScriptDestroy(who, pk)
    \/ \E who \in Identities : ScriptList(who)
    \/ \E who \in Identities, body \in RatingBodies : RatingCreate(who, body)
    \/ \E who \in Identities, pk \in RatingIds, partial \in BOOLEAN,
          body \in RatingBodies : RatingUpdate(who, pk, partial, body)
    \/ \E who \in Identities, pk \in RatingIds : RatingDestroy(who, pk)
    \/ \E who \in Identities, pk \in RatingIds \cup {0} : RatingRead(who, pk)

SpecContent == Init /\ [][NextContent]_vars

\* A store in use: the superuser, two registered users, one Group, one OS
\* entry, a Script of each registered user and a Rating.
InitViews ==
    /\ users = (Admin :> [AdminUser EXCEPT !.groups = {1}])
               @@ (2 :> [username |-> "alice",
                         email |-> [name |-> "a", domain |-> "x.org"],
                         is_staff |-> FALSE, groups |-> {1}])
               @@ (3 :> [username |-> "bob",
                         email |-> [name |-> "b", domain |-> "x.org"],
                         is_staff |-> FALSE, groups |-> {}])
    /\ groups = {1}
    /\ oses = {1}
    /\ scripts = [pk \in {1, 2} |->
                     [name |-> "v1", author |-> pk + 1, views |-> 0, modified |-> 0]]
    /\ ratings = 1 :> [rating |-> 5, script |-> 1, user |-> 3]
    /\ nextId = [user |-> 4, script |-> 3, rating |-> 2, group |-> 2, os |-> 2]
    /\ now = 0
    /\ inflight = EmptyBag
    /\ resp = Reply("none", "anonymous", "ok")
    /\ scriptCreator = [pk \in {1, 2} |-> pk + 1]
    /\ ratingCreator = 1 :> 3
    /\ retrieved = [pk \in {1, 2} |-> 0]

\* The read side of the API, with retrieve requests of a Script served at the
\* same time.
NextViews ==
    \/ \E who \in Identities, pk \in ScriptIds : ScriptRetrieveGetObject(who, pk)
    \/ \E instance \in BagToSet(inflight) : ScriptRetrieveUpdate(instance)
    \/ \E who \in Identities : ScriptList(who)
    \/ \E who \in Identities, pk \in RatingIds \cup {0} : RatingRead(who, pk)
    \/ \E who \in Identities : UserList(who)
    \/ \E who \in Identities, pk \in UserIds : UserRetrieve(who, pk)
    \/ \E who \in Identities, pk \in groups \cup {0} : GroupRead(who, pk)
    \/ \E who \in Identities, pk \in oses \cup {0} : OSRead(who, pk)
    \/ \E who \in Identities : RegisterList(who)
    \/ \E who \in Identities, pk \in ScriptIds : ScriptDestroy(who, pk)
    \/ Tick

SpecViews == InitViews /\ [][NextViews]_vars

\* ------------------------------------------------------------------ claims
\* C1: when the retrieve requests on a Script have all completed, its stored
\* views counter equals its value at creation (0) plus the number of completed
\* retrieves: no increment is lost, however the requests interleave.
C1_NoLostUpdate ==
    \A pk \in DOMAIN scripts :
        Retrieving(pk) = 0 => scripts[pk].views = retrieved[pk]

\* C2: the views counter of a stored Script never decreases from one state to
\* the next, and a retrieve that completes raises it by exactly 1.
C2_ViewsMonotonic ==
    [][\A pk \in DOMAIN scripts \cap DOMAIN scripts' :
          /\ scripts'[pk].views >= scripts[pk].views
          /\ retrieved'[pk] = retrieved[pk] + 1 =>
                 scripts'[pk].views = scripts[pk].views + 1]_vars

ReadOps ==
    {"script_list", "script_get_object", "rating_read", "user_list",
     "user_retrieve", "group_read", "os_read", "register_list"}

\* The Scripts differ at most in the views counter of one Script.
OnlyViewsOfOneScriptChanged ==
    /\ DOMAIN scripts' = DOMAIN scripts
    /\ \E pk \in DOMAIN scripts :
          scripts' = [scripts EXCEPT ![pk].views = scripts'[pk].views]

\* C8: a successful Script retrieve changes nothing in the store except the
\* views counter of the retrieved Script (its modified timestamp, its other
\* fields, every other Script, Rating, User, Group and OS stay as they were);
\* a list request or a retrieve of any other entity type changes nothing.
C8_RetrieveFrame ==
    [][/\ (resp'.op = "script_retrieve" /\ resp'.status = "ok")
            => /\ OnlyViewsOfOneScriptChanged
               /\ UNCHANGED <<users, groups, oses, ratings, nextId>>
       /\ resp'.op \in ReadOps => UNCHANGED store]_vars

\* A retrieve has completed after the clock moved past the Script's modified
\* timestamp, with Ratings, Groups and OS entries in the store.
C8_Witness ==
    /\ resp.op = "script_retrieve" /\ resp.status = "ok"
    /\ \E pk \in DOMAIN scripts :
          scripts[pk].views > 0 /\ scripts[pk].modified < now
    /\ DOMAIN ratings # {} /\ groups # {} /\ oses # {}

\* C3: the stored author of every Script and the stored user of every Rating
\* is the authenticated identity that issued its create request, whatever
\* 'author' / 'user' a create or update body carried.
C3_OwnerIsCreator ==
    /\ \A pk \in DOMAIN scripts :
          scripts[pk].author = scriptCreator[pk] /\ scriptCreator[pk] # Anonymous
    /\ \A pk \in DOMAIN ratings :
          ratings[pk].user = ratingCreator[pk] /\ ratingCreator[pk] # Anonymous

\* The owner of a Script has just updated it, and neither that Script nor a
\* Rating is owned by the owner the bodies name (the superuser).
C3_Witness ==
    /\ resp.op \in {"script_update", "script_partial_update"}
    /\ resp.role = "owner" /\ resp.status = "ok"
    /\ \E pk \in DOMAIN scripts : scripts[pk].author \notin ClientOwners
    /\ \E pk \in DOMAIN ratings : ratings[pk].user \notin ClientOwners

WriteMethods == {"PUT", "PATCH", "DELETE"}
ScriptWriteOps == {"script_update", "script_partial_update", "script_destroy"}
RatingWriteOps == {"rating_update", "rating_partial_update", "rating_destroy"}

\* The gate of every write on a stored Script or Rating opens exactly for its
\* owner and for staff, and refuses everybody else; the gate of every read opens.
GatesFollowOwnership ==
    \A who \in Identities :
        /\ \A pk \in DOMAIN scripts :
              /\ ScriptGate("GET", who, pk) = "pass"
              /\ \A method \in WriteMethods :
                    ScriptGate(method, who, pk) =
                        IF who = scripts[pk].author \/ IsStaff(who)
                        THEN "pass" ELSE "denied"
        /\ \A pk \in DOMAIN ratings :
              /\ RatingGate("GET", who, pk) = "pass"
              /\ \A method \in WriteMethods :
                    RatingGate(method, who, pk) =
                        IF who = ratings[pk].user \/ IsStaff(who)
                        THEN "pass" ELSE "denied"

\* C4: an update, partial update or delete of a Script (Rating) takes effect
\* only for its author (user) or for staff; from anybody else it is refused
\* and leaves every stored entity as it was; reads are open to every caller.
C4_WriteNeedsOwnerOrStaff ==
    /\ []GatesFollowOwnership
    /\ [][/\ resp'.op \in ScriptWriteOps \cup RatingWriteOps =>
               /\ resp'.role \in {"anonymous", "other"} =>
                      resp'.status \in {"denied", "not_found"}
               /\ resp'.status # "ok" => UNCHANGED <<store, history>>
          /\ resp'.op \in {"script_list", "rating_read"} =>
               resp'.status \in {"ok", "not_found"} /\ UNCHANGED <<store, history>>
         ]_vars

\* A registered user who is neither the author nor staff has just been refused
\* a write on a stored Script.
C4_Witness ==
    /\ resp.op \in ScriptWriteOps
    /\ resp.role = "other" /\ resp.status = "denied"
    /\ DOMAIN scripts # {}

ReferentialIntegrity ==
    /\ \A pk \in DOMAIN scripts : scripts[pk].author \in DOMAIN users
    /\ \A pk \in DOMAIN ratings :
          ratings[pk].user \in DOMAIN users /\ ratings[pk].script \in DOMAIN scripts

\* C9: every Script references a stored User and every Rating a stored User
\* and a stored Script; deleting a User removes that user's Scripts and Ratings
\* and the Ratings of those Scripts, and nothing else; deleting a Script removes
\* its Ratings and leaves every User.
C9_Cascade ==
    /\ []ReferentialIntegrity
    /\ [][/\ (resp'.op = "user_destroy" /\ resp'.status = "ok") =>
               \E pk \in DOMAIN users :
                   /\ users' = Without(users, {pk})
                   /\ scripts' = Restrict(scripts, {s \in DOMAIN scripts :
                                                       scripts[s].author # pk})
                   /\ ratings' = Restrict(ratings,
                          {r \in DOMAIN ratings :
                              /\ ratings[r].user # pk
                              /\ scripts[ratings[r].script].author # pk})
          /\ (resp'.op = "script_destroy" /\ resp'.status = "ok") =>
               \E pk \in DOMAIN scripts :
                   /\ scripts' = Without(scripts, {pk})
                   /\ ratings' = Restrict(ratings, {r \in DOMAIN ratings :
                                                       ratings[r].script # pk})
                   /\ users' = users
         ]_vars

\* A user has just deleted their own account; the Scripts and Ratings created
\* so far are gone and another registered user is still stored.
C9_Witness ==
    /\ resp.op = "user_destroy" /\ resp.role = "owner" /\ resp.status = "ok"
    /\ nextId.script > 1 /\ DOMAIN scripts = {}
    /\ nextId.rating > 1 /\ DOMAIN ratings = {}
    /\ \E u \in DOMAIN users : ~users[u].is_staff

UserUpdateOps == {"user_update", "user_partial_update"}

\* The outcome of every valid update of a stored User that carries a 'groups'
\* list whose set is not the target's membership.
GroupChangeOutcomes ==
    \A pk \in DOMAIN users, partial \in BOOLEAN :
        \A body \in UserGroupBodies(pk), user_groups \in GroupsAll(pk) :
            ( /\ "groups" \in DOMAIN body
              /\ UserSerializerIsValid(pk, partial, body)
              /\ Range(body.groups) # users[pk].groups )
            => \A who \in Identities :
                   LET result == UserViewSetUpdate(who, pk, partial, body, user_groups)
                   IN  IF IsStaff(who)
                       THEN /\ result.status = "ok"
                            /\ result.users[pk].groups = Range(body.groups)
                            /\ result.users[pk] =
                                   [users[pk] EXCEPT !.groups = Range(body.groups)]
                            /\ \A u \in DOMAIN users \ {pk} :
                                   result.users[u] = users[u]
                       ELSE /\ result.status = "denied"
                            /\ result.users = users

\* C5: a User update from a non-staff requester whose requested group set is
\* not the target's membership is refused with PermissionDenied and changes
\* no field of any user; the same request from staff succeeds and the stored
\* membership becomes the requested set.
C5_GroupChange ==
    /\ []GroupChangeOutcomes
    /\ [][(resp'.op \in UserUpdateOps /\ resp'.status = "denied")
              => UNCHANGED <<store, history>>]_vars

\* A non-staff user without any group has just been refused an update of
\* their own account that carried a non-empty 'groups' list.
C5_Witness ==
    /\ resp.op \in UserUpdateOps
    /\ resp.role = "owner" /\ resp.status = "denied"
    /\ "groups" \in resp.sent
    /\ groups # {}
    /\ \A u \in DOMAIN users : ~users[u].is_staff => users[u].groups = {}

\* The list a validated body requests: its 'groups', the empty list when the
\* body has none.
RequestedGroups(validated_data) ==
    IF "groups" \in DOMAIN validated_data THEN validated_data.groups ELSE <<>>

\* C10: for a non-staff requester UserSerializer.update passes exactly when the
\* list of the target's current groups equals the list in the validated data,
\* an omitted 'groups' standing for the empty list; so a non-staff member of a
\* group who sends an update without 'groups' is refused and nothing changes,
\* and the same request from a user without groups succeeds.
C10_GroupListCheck ==
    \A pk \in DOMAIN users, partial \in BOOLEAN :
        \A body \in UserGroupBodies(pk), user_groups \in GroupsAll(pk) :
            UserSerializerIsValid(pk, partial, body) =>
                /\ \A who \in DOMAIN users :
                       ~IsStaff(who) =>
                           LET result == UserSerializerUpdate(
                                             pk,
                                             ValidatedData(body, UserSerializerFields,
                                                           UserSerializerReadOnlyFields),
                                             who, user_groups)
                           IN  /\ (result.status = "ok") <=>
                                      (user_groups = RequestedGroups(body))
                               /\ result.status # "ok" =>
                                      result.status = "denied" /\ result.users = users
                /\ (~IsStaff(pk) /\ "groups" \notin DOMAIN body) =>
                       LET result == UserViewSetUpdate(pk, pk, partial, body, user_groups)
                       IN  IF users[pk].groups # {}
                           THEN result.status = "denied" /\ result.users = users
                           ELSE result.status = "ok"

\* A non-staff member of a group has just been refused a partial update of
\* their own account that carried only the e-mail address.
C10_Witness ==
    /\ resp.op = "user_partial_update"
    /\ resp.role = "owner" /\ resp.status = "denied"
    /\ resp.sent = {"email"}
    /\ \E u \in DOMAIN users : ~users[u].is_staff /\ users[u].groups # {}

PublicUserFields == {"url", "username", "groups", "scripts", "ratings"}

C7_EmailUnique ==
    \A u, v \in DOMAIN users : u # v => users[u].email # users[v].email

====
